---- MODULE Spec2Model ----
(***************************************************************************)
(* Model of the chat front-ends of Ferx096/poc4: the queue/HTTP function   *)
(* app built on ExistingAgentClient (src/app), the Azure Functions chat    *)
(* endpoints with a process-wide client (src/azure_functions, src/falled,  *)
(* src/test_api_key_ai) and the stateless HTTP handlers (src/api).         *)
(*                                                                         *)
(* One deployment runs per behaviour (chosen in Init); its handlers are    *)
(* taken one request at a time.  The remote agent service is a black box:  *)
(* every remote call either returns or raises, a run goes through          *)
(* "queued", "in_progress" and then a terminal status, and the thread's    *)
(* message list is whatever the service returns.  A handler is one action; *)
(* the remote's answers are drawn where the code asks for them.            *)
(*                                                                         *)
(* Python strings are sequences of tokens: "" is << >>, str concatenation  *)
(* is \o.                                                                  *)
(***************************************************************************)
EXTENDS Integers, Sequences, FiniteSets, TLC

\* ------------------------------------------------------------------ bounds
MaxRequests == 2      \* requests handled in one behaviour
NWorkers == 2         \* requests in progress at once (thread pool of the worker)
MaxMsgs == 2          \* messages in a thread listing
max_wait == 3         \* poll budget of _wait_for_response (60 in the source)
max_attempts == 2     \* poll budget of api/chat main (30 in the source)
MaxReads == 2         \* times one completed run's thread is read

\* ----------------------------------------------------------------- strings
S(tok) == <<tok>>
Empty == << >>
Blank == <<" ">>
IsBlank(s) == \A i \in 1..Len(s) : s[i] = " "
Truthy(s) == s # Empty

\* ids: caller-supplied session keys, remote thread ids and run ids
None == <<"None", 0>>
SessionKey(i) == <<"s", i>>
ThreadId(n) == <<"thread", n>>
RunId(n) == <<"run", n>>
SessionKeys == {SessionKey(1), SessionKey(2)}
TruthyId(k) == k # None

\* ------------------------------------------------------------ remote model
NonTerminal == {"queued", "in_progress"}
Terminal == {"completed", "failed", "expired", "cancelled"}

\* an exception raised by the SDK: its class and its str()
AzureErr == [cls |-> "AzureError", msg |-> S("service unavailable")]
OtherErr == [cls |-> "Exception", msg |-> S("boom")]
\* an authentication-class failure (401) of a remote call
AuthErr == [cls |-> "ClientAuthenticationError", msg |-> S("401 Unauthorized")]
RemoteErrors == {AzureErr, OtherErr, AuthErr}
Ok == [cls |-> "ok", msg |-> Empty]
CallOutcomes == {Ok} \cup RemoteErrors

\* text segments of a thread message, and the messages themselves
TextSegments == {<< >>, <<Empty>>, <<S("a")>>, <<S("a"), S("b")>>}
Messages == {[role |-> "user", text_messages |-> <<S("hello")>>]}
            \cup [role : {"assistant"}, text_messages : TextSegments]
RECURSIVE SeqsUpTo(_, _)
SeqsUpTo(set, n) ==
    IF n = 0 THEN {<< >>}
    ELSE LET shorter == SeqsUpTo(set, n - 1)
         IN shorter \cup {Append(s, x) : s \in {t \in shorter : Len(t) = n - 1}, x \in set}
MsgLists == SeqsUpTo(Messages, MaxMsgs)
\* list_messages: the listing, or a raise
ListOutcomes == {[ok |-> TRUE, data |-> m] : m \in MsgLists}
                \cup {[ok |-> FALSE, data |-> << >>]}

\* the thread's messages in ascending creation order, from a listing:
\* messages.list(order=ListSortOrder.ASCENDING) returns them so, a listing
\* requested without `order` comes newest first
Reverse(s) == [i \in 1..Len(s) |-> s[Len(s) + 1 - i]]
AscendingOrder(ordered, listing) == IF ordered THEN listing ELSE Reverse(listing)

\* the run as the remote plays it: `pending` polls see a non-terminal
\* status, every later poll sees `then` ("error": get_run raises)
PendingMax == IF max_wait > max_attempts THEN max_wait ELSE max_attempts
RunScripts == [pending : 0..PendingMax, then : Terminal \cup {"error"}]
StatusAt(script, n) ==
    IF n <= script.pending
    THEN (IF n = 1 THEN "queued" ELSE "in_progress")
    ELSE script.then

\* ---------------------------------------------------------------- requests
\* body: what req.get_json() / json.loads meets
Payload(body, has, message, session, corr) ==
    [body |-> body, has_message |-> has, message |-> message,
     session |-> session, correlation |-> corr]
Payloads ==
    {Payload("invalid_json", FALSE, Empty, None, Empty),
     Payload("empty_object", FALSE, Empty, None, Empty),
     Payload("array", FALSE, Empty, None, Empty),
     Payload("object", FALSE, Empty, SessionKey(1), S("c1")),
     Payload("object", TRUE, Empty, None, Empty),
     Payload("object", TRUE, Blank, None, S("c1"))}
    \cup {Payload("object", TRUE, S("hello"), k, c) :
            k \in {None} \cup SessionKeys, c \in {Empty, S("c1")}}
    \* threadId: the ThreadId of an earlier answer, sent back by the caller
    \cup {Payload("object", TRUE, S("hello"), ThreadId(1), Empty)}
NoPayload == Payload("none", FALSE, Empty, None, Empty)
\* req.method == "OPTIONS": a preflight, without body
OptionsRequest == Payload("options", FALSE, Empty, None, Empty)

\* the payload violates the spec's validation rule
InvalidMessage(p) == ~p.has_message \/ IsBlank(p.message)

\* what a handler hands back: raised = an exception left the handler
Out(raised, http, success, value, detail, tid, corr, emitted) ==
    [raised |-> raised, http |-> http, success |-> success, value |-> value,
     detail |-> detail, thread_id |-> tid, correlation |-> corr,
     emitted |-> emitted]
NoOut == Out(FALSE, 0, FALSE, Empty, Empty, None, Empty, 0)

\* the headers dict of the preflight answers, by header name
content_type_only(d) == IF d \in {"api", "api_chat"} THEN {"Content-Type"} ELSE {}
cors_headers(d) ==
    {"Access-Control-Allow-Origin", "Access-Control-Allow-Methods",
     "Access-Control-Allow-Headers"}
    \cup (IF d \in {"api", "api_chat"} THEN {"Content-Type"}
          ELSE IF d = "azure_functions" THEN {"Access-Control-Max-Age"}
          ELSE {})
\* func.HttpResponse("", status_code=..., headers=headers)
Preflight(http, d) ==
    Out(FALSE, http, FALSE, Empty, Empty, None, Empty, 0) @@ [headers |-> cors_headers(d)]

VARIABLES
    deployment,   \* which program of the repository this process runs
    threads,      \* ExistingAgentClient.threads: items (session key, thread id)
    nThreads,     \* threads the remote service has created so far
    handled,      \* requests received so far
    req,          \* the request in hand: payload, remote calls made, outcome
    prev,         \* summary of the request handled before it
    env,          \* os.environ: which settings the process was started with
    project,      \* module-level client of the function apps, None until built
    initialization_error,   \* module-level text of the last recorded failure
    api_key_status,         \* module-level api_key_status / auth_method
    init_log,     \* the last run of initialize_client: attempts and return value
    workers,      \* requests in progress at once: each one's position and locals
    reading       \* a completed run's thread being read: its listing, the replies

globals == <<project, initialization_error, api_key_status, init_log>>
vars == <<deployment, threads, nThreads, handled, req, prev, env, globals, workers,
          reading>>

\* stage: "none" (nothing received yet), "received", "done"
Request(stage, handler, p, calls, observed, msgs, out) ==
    [stage |-> stage, handler |-> handler, payload |-> p, calls |-> calls,
     observed |-> observed, msgs |-> msgs, out |-> out]
NoRequest == Request("none", "none", NoPayload, << >>, << >>, << >>, NoOut)
Received(handler, p) == Request("received", handler, p, << >>, << >>, << >>, NoOut)

\* a call that raised, issued once more
RaisedAndReissued(calls) ==
    IF calls = << >> THEN <<"raise">> ELSE calls \o <<"raise", calls[Len(calls)]>>
\* the log of remote calls of a request: "raise" follows a call that raised
Raised(calls) == Append(calls, "raise")
Count(calls, name) == Cardinality({i \in 1..Len(calls) : calls[i] = name})
Summary(r) ==
    [handler |-> r.handler, session |-> r.payload.session,
     creates |-> Count(r.calls, "create_thread"),
     retried |-> Count(r.calls, "initialize_client") > 0,
     thread_id |-> r.out.thread_id, success |-> r.out.success]

\* ------------------------------------------------- src/app/agent_client.py
AgentResponse(content, thread_id, run_id, success) ==
    [content |-> content, thread_id |-> thread_id, run_id |-> run_id,
     success |-> success]

\* self.threads, a dict, as the set of its items
CacheKeys(cache) == {e.key : e \in cache}
Cached(cache, key) == (CHOOSE e \in cache : e.key = key).thread
\* an insert that starts the dict afresh
CacheReset(cache, key, thread) == {[key |-> key, thread |-> thread]}
\* an insert that is taken back
CacheUndone(cache, key, thread) == cache
CachePut(cache, key, thread) ==
    {e \in cache : e.key # key} \cup {[key |-> key, thread |-> thread]}

\* a loop that takes a pending run for a finished one
CompletedOrPending(status) == status \in {"completed", "queued", "in_progress"}

\* if run.status == "completed"
Completed(status) == status = "completed"

\* statuses on which _wait_for_response raises
failed_statuses == {"failed", "expired", "cancelled"}

\* the while loop of _wait_for_response up to the first status that ends it
RECURSIVE poll_loop(_, _, _)
poll_loop(script, wait_time, observed) ==
    IF wait_time < max_wait
    THEN LET st == StatusAt(script, wait_time + 1)
         IN IF st = "error"
            THEN [end |-> "raised", polls |-> wait_time + 1, observed |-> observed]
            ELSE IF Completed(st)
            THEN [end |-> "completed", polls |-> wait_time + 1,
                  observed |-> Append(observed, st)]
            ELSE IF st \in failed_statuses
            THEN [end |-> "failed", polls |-> wait_time + 1,
                  observed |-> Append(observed, st)]
            ELSE poll_loop(script, wait_time + 1, Append(observed, st))
    ELSE [end |-> "timeout", polls |-> wait_time, observed |-> observed]

\* for message in messages.data: first assistant message, content[0].text.value
RECURSIVE first_assistant(_, _)
first_assistant(msgs, i) ==
    IF i > Len(msgs) THEN [found |-> FALSE, raised |-> FALSE, text |-> Empty]
    ELSE IF msgs[i].role = "assistant"
    THEN IF msgs[i].text_messages = << >>
         THEN [found |-> TRUE, raised |-> TRUE, text |-> S("list index out of range")]
         ELSE [found |-> TRUE, raised |-> FALSE, text |-> msgs[i].text_messages[1]]
    ELSE first_assistant(msgs, i + 1)

TimeoutText == S("Timeout esperando respuesta del agente")
FailedText(status) == S("El agente fallo con estado: ") \o S(status)

Polls(n) == [i \in 1..n |-> "get_run"]

\* every way _wait_for_response can end: ok = returned text, else the
\* message of the exception it raised
wait_for_response(thread_id, run_id) ==
    UNION {
      LET p == poll_loop(script, 0, << >>)
          W(ok, text, calls, msgs) ==
              [ok |-> ok, text |-> text, calls |-> calls,
               observed |-> p.observed, msgs |-> msgs]
      IN IF p.end = "raised"
         THEN {W(FALSE, e.msg, Raised(Polls(p.polls)), << >>) : e \in RemoteErrors}
         ELSE IF p.end = "completed"
         THEN UNION {
                IF ~lm.ok
                THEN {W(FALSE, e.msg,
                        Raised(Append(Polls(p.polls), "list_messages")), << >>)
                        : e \in RemoteErrors}
                ELSE LET a == first_assistant(lm.data, 1)
                         calls == Append(Polls(p.polls), "list_messages")
                     IN IF a.found /\ ~a.raised THEN {W(TRUE, a.text, calls, lm.data)}
                        ELSE IF a.found THEN {W(FALSE, a.text, calls, lm.data)}
                        ELSE {W(FALSE, TimeoutText, calls, lm.data)}
                : lm \in ListOutcomes }
         ELSE IF p.end = "failed"
         THEN {W(FALSE, FailedText(p.observed[Len(p.observed)]), Polls(p.polls), << >>)}
         ELSE {W(FALSE, TimeoutText, Polls(p.polls), << >>)}
      : script \in RunScripts }

\* an error response that forgets the caller's thread_id
ErrorResponseWithoutKey(e, thread_id) ==
    AgentResponse(S("Error: ") \o e, None, None, FALSE)
\* an exception answered as if the call had succeeded
ErrorResponseAsSuccess(e, thread_id) ==
    AgentResponse(S("Error: ") \o e, thread_id, None, TRUE)
\* except Exception as e: the one AgentResponse of a failed call
ErrorResponse(e, thread_id) ==
    AgentResponse(S("Error: ") \o e, thread_id, None, FALSE)

\* every way chat_with_agent can end, with the cache and the remote thread
\* count it leaves behind
chat_with_agent(query, thread_id) ==
    LET hit == TruthyId(thread_id) /\ thread_id \in CacheKeys(threads)
        thread == IF hit THEN Cached(threads, thread_id) ELSE ThreadId(nThreads + 1)
        run == RunId(handled)
        cache == IF ~hit /\ TruthyId(thread_id)
                 THEN CachePut(threads, thread_id, thread)
                 ELSE threads
        made == IF hit THEN nThreads ELSE nThreads + 1
        first == IF hit THEN << >> ELSE <<"create_thread">>
        R(resp, calls, observed, msgs, th, n) ==
            [resp |-> resp, calls |-> calls, observed |-> observed,
             msgs |-> msgs, threads |-> th, nThreads |-> n]
        Failure(e, calls, observed, msgs, th, n) ==
            R(ErrorResponse(e, thread_id), calls, observed, msgs, th, n)
    IN UNION {
         IF ~hit /\ ct # Ok
         THEN {Failure(ct.msg, Raised(first), << >>, << >>, threads, nThreads)}
         ELSE UNION {
           IF cm # Ok
           THEN {Failure(cm.msg, Raised(Append(first, "create_message")), << >>, << >>,
                         cache, made)}
           ELSE UNION {
             IF cr # Ok
             THEN {Failure(cr.msg, Raised(first \o <<"create_message", "create_run">>),
                           << >>, << >>, cache, made)}
             ELSE {LET calls == first \o <<"create_message", "create_run">> \o w.calls
                   IN IF w.ok
                      THEN R(AgentResponse(w.text, thread, run, TRUE),
                             calls, w.observed, w.msgs, cache, made)
                      ELSE Failure(w.text, calls, w.observed, w.msgs, cache, made)
                   : w \in wait_for_response(thread, run)}
             : cr \in CallOutcomes }
           : cm \in CallOutcomes }
         : ct \in (IF hit THEN {Ok} ELSE CallOutcomes) }

\* ------------------------------------- src/app/utils/response_formatter.py
format_agent_response(resp, correlation_id, http, emitted) ==
    Out(FALSE, http, resp.success, resp.content, Empty, resp.thread_id,
        correlation_id, emitted) @@ [run_id |-> resp.run_id]

\* the error envelope built but not handed to the output binding
format_error_response_unset(error_message, correlation_id) ==
    Out(FALSE, 0, FALSE,
        S("Lo siento, ocurrio un error procesando tu consulta: ") \o error_message,
        error_message, None, correlation_id, 0)
format_error_response(error_message, correlation_id) ==
    Out(FALSE, 0, FALSE,
        S("Lo siento, ocurrio un error procesando tu consulta: ") \o error_message,
        error_message, None, correlation_id, 1)

\* -------------------------------------------------- src/app/function_app.py
Unhandled == Out(TRUE, 0, FALSE, Empty, Empty, None, Empty, 0)
HttpError(http, error, corr) ==
    Out(FALSE, http, FALSE, Empty, error, None, corr, 0)

\* the handler returns: the request in hand is done
Finish(calls, observed, msgs, out, th, n) ==
    /\ req' = Request("done", req.handler, req.payload, calls, observed, msgs, out)
    /\ threads' = th
    /\ nThreads' = n
    /\ UNCHANGED <<deployment, reading, handled, prev, env, globals, workers>>
Return(out) == Finish(<< >>, << >>, << >>, out, threads, nThreads)

Handling(handler) == req.stage = "received" /\ req.handler = handler

ProcessAgentConversationHttp ==
    /\ Handling("process_agent_conversation_http")
    /\ LET p == req.payload
       IN IF p.body = "invalid_json"
          \* get_json raises; the except block reads the unbound req_body
          THEN Return(Unhandled)
          ELSE IF p.body = "empty_object"
          THEN Return(HttpError(400, S("No se proporcionaron datos"), Empty))
          ELSE IF p.body = "array"
          \* a list has no .get: AttributeError, raised again in the except block
          THEN Return(Unhandled)
          ELSE LET query == IF p.has_message THEN p.message ELSE Empty
                   thread_id == p.session
                   correlation_id ==
                       IF p.correlation = Empty THEN S("unknown") ELSE p.correlation
               IN IF ~Truthy(query)
                  THEN Return(HttpError(400, S("Query es requerido"), Empty))
                  ELSE \E r \in chat_with_agent(query, thread_id) :
                         Finish(r.calls, r.observed, r.msgs,
                                format_agent_response(r.resp, correlation_id, 200, 0),
                                r.threads, r.nThreads)

\* MessageProcessor.parse_queue_message: the typed message, or a raise
parse_queue_message(p) ==
    IF p.body \in {"invalid_json", "array"}
    THEN [ok |-> FALSE, error |-> S("cannot parse message"),
          query |-> Empty, correlation_id |-> Empty, thread_id |-> None]
    ELSE [ok |-> TRUE, error |-> Empty,
          query |-> IF p.has_message THEN p.message ELSE Empty,
          correlation_id |-> p.correlation,
          thread_id |-> p.session]

ProcessAgentConversationQueue ==
    /\ Handling("process_agent_conversation_queue")
    /\ LET message_data == parse_queue_message(req.payload)
       IN IF ~message_data.ok
          THEN Return(format_error_response(message_data.error, S("unknown")))
          ELSE \E r \in chat_with_agent(message_data.query, message_data.thread_id) :
                 Finish(r.calls, r.observed, r.msgs,
                        format_agent_response(r.resp, message_data.correlation_id, 0, 1),
                        r.threads, r.nThreads)

\* ------------------------------------------ process-wide client (function apps)
NoneStr == <<"<None>">>
Client(mechanism, verified) == <<mechanism, IF verified THEN 1 ELSE 0>>
\* api_key, msi: credential material; endpoint, agent_id: required settings;
\* sdk: which run entry point the installed SDK has: agents.create_and_run,
\* agents.runs, or neither ("create_run")
Env(api_key, msi, endpoint, agent_id, sdk) ==
    [api_key |-> api_key, msi |-> msi, endpoint |-> endpoint,
     agent_id |-> agent_id, sdk |-> sdk]
NoEnv == Env(FALSE, FALSE, TRUE, TRUE, "runs")

\* one credential mechanism tried: built and verified, or where it raised
AttemptOutcomes ==
    {[result |-> "ok", err |-> Ok]}
    \cup [result : {"ctor_raises", "verify_raises"}, err : {AzureErr}]
Attempt(mechanism, o) == [mechanism |-> mechanism, result |-> o.result]
Calls(o) == IF o.result = "ctor_raises" THEN <<"initialize_client">>
            ELSE <<"initialize_client", "get_agent">>

InitResult(ret, proj, error, status, tried, calls) ==
    [ret |-> ret, project |-> proj, initialization_error |-> error,
     api_key_status |-> status, tried |-> tried, calls |-> calls]
NoInitLog == [tried |-> << >>, ret |-> FALSE, ran |-> FALSE]
\* the module-level assignments, before initialize_client() runs
Fresh == [project |-> None, initialization_error |-> NoneStr,
          api_key_status |-> "checking", init_log |-> NoInitLog]
After(i) == [project |-> i.project, initialization_error |-> i.initialization_error,
             api_key_status |-> i.api_key_status,
             init_log |-> [tried |-> i.tried, ret |-> i.ret, ran |-> TRUE]]

\* ------------------------------------- src/azure_functions/function_app.py
\* every way initialize_client can end, from environment e and globals g
initialize_client(e, g) ==
    IF e.api_key
    THEN {IF o.result = "ok"
          THEN InitResult(TRUE, Client("api_key", TRUE), g.initialization_error,
                          "found", <<Attempt("api_key", o)>>, Calls(o))
          ELSE IF o.result = "verify_raises"
          THEN InitResult(FALSE, None,
                          S("Cliente creado pero no puede acceder al agente: ")
                              \o o.err.msg,
                          "found", <<Attempt("api_key", o)>>, Calls(o))
          ELSE InitResult(FALSE, None, o.err.msg, "found",
                          <<Attempt("api_key", o)>>, Calls(o))
          : o \in AttemptOutcomes}
    ELSE IF e.msi
    THEN {IF o.result = "ok"
          THEN InitResult(TRUE, Client("managed_identity", TRUE),
                          g.initialization_error, "managed_identity",
                          <<Attempt("managed_identity", o)>>, Calls(o))
          ELSE InitResult(FALSE, None, o.err.msg, "not_found",
                          <<Attempt("managed_identity", o)>>, Calls(o))
          : o \in AttemptOutcomes}
    ELSE {InitResult(FALSE, g.project,
                     S("Ni API Key ni Managed Identity disponibles"),
                     "not_found", << >>, <<"initialize_client">>)}

\* ------------------------- src/test_api_key_ai/function_app_identity_test.py
\* the three attempts in turn; a failed attempt leaves what it assigned
initialize_client_identity_test(e, g) ==
    LET key == IF e.api_key THEN AttemptOutcomes ELSE {[result |-> "skipped", err |-> Ok]}
        mi == IF e.msi THEN AttemptOutcomes ELSE {[result |-> "skipped", err |-> Ok]}
        Built(o, mechanism, before) ==
            IF o.result = "verify_raises" THEN Client(mechanism, FALSE) ELSE before
        Log(o, mechanism) ==
            IF o.result = "skipped" THEN << >> ELSE <<Attempt(mechanism, o)>>
        CallsOf(o) == IF o.result \in {"ok", "verify_raises"} THEN <<"get_agent">> ELSE << >>
    IN UNION {
         IF k.result = "ok"
         THEN {InitResult(TRUE, Client("api_key", TRUE), g.initialization_error,
                          "api_key", Log(k, "api_key"),
                          <<"initialize_client">> \o CallsOf(k))}
         ELSE UNION {
           LET p1 == Built(k, "api_key", g.project)
               e1 == IF m.result = "skipped"
                     THEN S("Managed Identity no esta habilitada en esta Function App")
                     ELSE S("Managed Identity fallo: ") \o m.err.msg
           IN IF m.result = "ok"
              THEN {InitResult(TRUE, Client("managed_identity", TRUE),
                               g.initialization_error, "managed_identity",
                               Log(k, "api_key") \o Log(m, "managed_identity"),
                               <<"initialize_client">> \o CallsOf(k) \o CallsOf(m))}
              ELSE {LET p2 == Built(m, "managed_identity", p1)
                        tried == Log(k, "api_key") \o Log(m, "managed_identity")
                                     \o Log(d, "default_credential")
                        calls == <<"initialize_client">> \o CallsOf(k) \o CallsOf(m)
                                     \o CallsOf(d)
                    IN IF d.result = "ok"
                       THEN InitResult(TRUE, Client("default_credential", TRUE), e1,
                                       "default_credential", tried, calls)
                       ELSE InitResult(FALSE, Built(d, "default_credential", p2),
                                       S("Ningun metodo de autenticacion funciono. Ultimo error: ")
                                           \o d.err.msg,
                                       g.api_key_status, tried, calls)
                    : d \in AttemptOutcomes}
           : m \in mi }
         : k \in key }

\* ------------------------- src/falled/azure_functions_falled/function_app.py
\* managed identity only; any failure clears the client
initialize_client_falled(e, g) ==
    IF ~e.msi
    THEN {InitResult(FALSE, None,
                     S("Managed Identity no esta habilitada en esta Function App"),
                     g.api_key_status, << >>, <<"initialize_client">>)}
    ELSE {IF o.result = "ok"
          THEN InitResult(TRUE, Client("managed_identity", TRUE), g.initialization_error,
                          g.api_key_status, <<Attempt("managed_identity", o)>>, Calls(o))
          ELSE InitResult(FALSE, None, o.err.msg, g.api_key_status,
                          <<Attempt("managed_identity", o)>>, Calls(o))
          : o \in AttemptOutcomes}

FunctionApps == {"azure_functions", "identity_test", "falled"}
InitializeClient(d, e, g) ==
    IF d = "azure_functions" THEN initialize_client(e, g)
    ELSE IF d = "identity_test" THEN initialize_client_identity_test(e, g)
    ELSE initialize_client_falled(e, g)

\* --------------------------------------------------------- reply extraction
Last(s) == s[Len(s)]

\* for msg in reversed(list(messages)): first non-user message with text
RECURSIVE extract_reversed(_, _, _)
extract_reversed(msgs, i, fallback) ==
    IF i = 0 THEN fallback
    ELSE IF msgs[i].role # "user" /\ msgs[i].text_messages # << >>
    THEN Last(msgs[i].text_messages)
    ELSE extract_reversed(msgs, i - 1, fallback)

\* for msg in messages: keep the last assistant message with text;
\* `if not bot_response` puts the fallback
RECURSIVE last_assistant(_, _, _)
last_assistant(msgs, i, bot_response) ==
    IF i > Len(msgs) THEN bot_response
    ELSE IF msgs[i].role = "assistant" /\ msgs[i].text_messages # << >>
    THEN last_assistant(msgs, i + 1, Last(msgs[i].text_messages))
    ELSE last_assistant(msgs, i + 1, bot_response)
extract_forward(msgs, fallback) ==
    LET bot_response == last_assistant(msgs, 1, Empty)
    IN IF ~Truthy(bot_response) THEN fallback ELSE bot_response

\* runs.create_and_process: the SDK polls until the run is terminal
ProcessedRuns ==
    {[status |-> s, last_error |-> Empty] : s \in Terminal}
    \cup {[status |-> "failed", last_error |-> S("rate_limit_exceeded")]}

\* --------------------------------------------------- chat_endpoint (three apps)
Fallback(d) ==
    IF d = "azure_functions" THEN S("Lo siento, no pude generar una respuesta.")
    ELSE IF d = "identity_test" THEN S("No se pudo generar respuesta")
    ELSE S("Lo siento, no pude generar una respuesta. Por favor, intenta de nuevo.")
UnknownError(d) ==
    IF d = "identity_test" THEN S("Unknown") ELSE S("Error desconocido")
Unavailable(d, error) ==
    IF d = "identity_test" THEN error ELSE S("No se puede conectar con el agente")
Extract(d, msgs) ==
    IF d = "falled" THEN extract_forward(msgs, Fallback(d))
    ELSE extract_reversed(msgs, Len(msgs), Fallback(d))

\* the handler returns, leaving the globals as initialize_client set them
FinishClient(calls, observed, msgs, out, n, g) ==
    /\ req' = Request("done", req.handler, req.payload, calls, observed, msgs, out)
    /\ nThreads' = n
    /\ project' = g.project
    /\ initialization_error' = g.initialization_error
    /\ api_key_status' = g.api_key_status
    /\ init_log' = g.init_log
    /\ UNCHANGED <<deployment, reading, handled, prev, env, threads, workers>>

Globals == [project |-> project, initialization_error |-> initialization_error,
            api_key_status |-> api_key_status, init_log |-> init_log]

\* a handler that overlooks the failed status
RunFailedOverlooked(run) == FALSE

\* if run.status == "failed"
RunFailed(run) == run.status = "failed"

\* the part of chat_endpoint inside its try block, with the client in place
ChatBody(d, pre, g) ==
    LET p == req.payload
        Err(calls, observed, msgs, http, detail, n) ==
            FinishClient(pre \o calls, observed, msgs,
                         Out(FALSE, http, FALSE, Empty, detail, None, Empty, 0), n, g)
        Raise(calls, observed, detail, n) ==
            Err(Raised(calls), observed, << >>, 500, detail, n)
        thread == ThreadId(nThreads + 1)
    IN IF p.body = "invalid_json"
       THEN Err(<< >>, << >>, << >>, 500, S("invalid json"), nThreads)
       ELSE IF p.body \in {"empty_object", "array"} \/ ~p.has_message
       THEN Err(<< >>, << >>, << >>, 400, S("El mensaje es requerido"), nThreads)
       ELSE \E ga \in CallOutcomes :
         IF ga # Ok
         THEN Raise(<<"get_agent">>, << >>, ga.msg, nThreads)
         ELSE \E ct \in CallOutcomes :
           IF ct # Ok
           THEN Raise(<<"get_agent", "create_thread">>, << >>, ct.msg, nThreads)
           ELSE \E cm \in CallOutcomes :
             IF cm # Ok
             THEN Raise(<<"get_agent", "create_thread", "create_message">>, << >>,
                        cm.msg, nThreads + 1)
             ELSE \E cr \in CallOutcomes :
               LET sent == <<"get_agent", "create_thread", "create_message",
                             "create_and_process">>
               IN IF cr # Ok
                  THEN Raise(sent, << >>, cr.msg, nThreads + 1)
                  ELSE \E run \in ProcessedRuns :
                    IF RunFailed(run)
                    THEN Err(sent, <<run.status>>, << >>, 500,
                             IF Truthy(run.last_error) THEN run.last_error
                             ELSE UnknownError(d),
                             nThreads + 1)
                    ELSE \E lm \in ListOutcomes :
                      IF ~lm.ok
                      THEN \E e \in RemoteErrors :
                             Raise(Append(sent, "list_messages"), <<run.status>>,
                                   e.msg, nThreads + 1)
                      ELSE FinishClient(pre \o Append(sent, "list_messages"),
                                        <<run.status>>, lm.data,
                                        Out(FALSE, 200, TRUE, Extract(d, lm.data), Empty,
                                            thread, Empty, 0),
                                        nThreads + 1, g)

\* a handler that runs initialize_client() whatever the client is
NoProjectAlways(proj) == TRUE

\* if not project
NoProject(proj) == proj = None

\* if not project: initialize_client() or 503; then the try block
ChatEndpoint(d) ==
    IF NoProject(project)
    THEN \E i \in InitializeClient(d, env, Globals) :
           IF ~i.ret
           THEN FinishClient(i.calls, << >>, << >>,
                             Out(FALSE, 503, FALSE, Empty,
                                 Unavailable(d, i.initialization_error), None, Empty, 0),
                             nThreads, After(i))
           ELSE ChatBody(d, i.calls, After(i))
    ELSE ChatBody(d, << >>, Globals)

chat_endpoint ==
    /\ Handling("chat_endpoint") /\ deployment = "azure_functions"
    /\ ChatEndpoint("azure_functions")

chat_endpoint_identity_test ==
    /\ Handling("chat_endpoint") /\ deployment = "identity_test"
    /\ ChatEndpoint("identity_test")

chat_endpoint_falled ==
    /\ Handling("chat_endpoint") /\ deployment = "falled"
    /\ ChatEndpoint("falled")

\* ------------------------------------------ health, test and debug endpoints
Healthy == S("healthy")
Unhealthy == S("unhealthy")
Health(http, status, error) == Out(FALSE, http, http = 200, status, error, None, Empty, 0)

\* health_check of src/azure_functions: retry, then verify with get_agent
health_check ==
    /\ Handling("health_check") /\ deployment = "azure_functions"
    /\ \E g \in (IF NoProject(project)
                 THEN {[after |-> After(i), calls |-> i.calls]
                         : i \in InitializeClient(deployment, env, Globals)}
                 ELSE {[after |-> Globals, calls |-> << >>]}) :
         IF g.after.project # None
         THEN \E ga \in CallOutcomes :
                IF ga = Ok
                THEN FinishClient(Append(g.calls, "get_agent"), << >>, << >>,
                                  Health(200, Healthy, Empty), nThreads, g.after)
                ELSE FinishClient(Raised(Append(g.calls, "get_agent")), << >>, << >>,
                                  Health(503, Unhealthy,
                                         S("No se puede conectar al agente: ") \o ga.msg),
                                  nThreads, g.after)
         ELSE FinishClient(g.calls, << >>, << >>,
                           Health(503, Unhealthy, S("Cliente no inicializado")),
                           nThreads, g.after)

\* health_check of the two other apps: retry, then "healthy" if project
HealthCheck(d) ==
    \E g \in (IF NoProject(project)
              THEN {[after |-> After(i), calls |-> i.calls]
                      : i \in InitializeClient(d, env, Globals)}
              ELSE {[after |-> Globals, calls |-> << >>]}) :
      IF g.after.project # None
      THEN FinishClient(g.calls, << >>, << >>, Health(200, Healthy, Empty),
                        nThreads, g.after)
      ELSE FinishClient(g.calls, << >>, << >>,
                        Health(503, Unhealthy, g.after.initialization_error),
                        nThreads, g.after)

health_check_identity_test ==
    /\ Handling("health_check") /\ deployment = "identity_test"
    /\ HealthCheck("identity_test")

health_check_falled ==
    /\ Handling("health_check") /\ deployment = "falled"
    /\ HealthCheck("falled")

\* chat_options, alike in the three apps but for the header values
chat_options ==
    /\ Handling("chat_options") /\ deployment \in FunctionApps
    /\ FinishClient(<< >>, << >>, << >>, Preflight(204, deployment), nThreads, Globals)

\* test_endpoint, alike in the three apps: 200 with bool(project)
test_endpoint ==
    /\ Handling("test_endpoint") /\ deployment \in FunctionApps
    /\ FinishClient(<< >>, << >>, << >>,
                    Out(FALSE, 200, TRUE,
                        IF project # None THEN S("client_ready") ELSE S("client_not_ready"),
                        Empty, None, Empty, 0),
                    nThreads, Globals)

\* debug_endpoint, alike in the three apps: 200 with bool(project) and the
\* recorded initialization_error
debug_endpoint ==
    /\ Handling("debug_endpoint") /\ deployment \in FunctionApps
    /\ FinishClient(<< >>, << >>, << >>,
                    Out(FALSE, 200, TRUE,
                        IF project # None THEN S("client_initialized")
                        ELSE S("client_not_initialized"),
                        initialization_error, None, Empty, 0),
                    nThreads, Globals)

\* --------------------------------------------------- src/api/__init__.py
\* for msg in messages: first assistant message with text, its last segment
RECURSIVE first_assistant_text(_, _)
first_assistant_text(msgs, i) ==
    IF i > Len(msgs) THEN Empty
    ELSE IF msgs[i].role = "assistant" /\ msgs[i].text_messages # << >>
    THEN Last(msgs[i].text_messages)
    ELSE first_assistant_text(msgs, i + 1)

ApiFallback ==
    S("Lo siento, no pude generar una respuesta. Por favor intenta nuevamente.")

HttpFail(calls, observed, msgs, http, detail, n) ==
    Finish(calls, observed, msgs,
           Out(FALSE, http, FALSE, Empty, detail, None, Empty, 0), threads, n)
HttpRaise(calls, observed, detail, n) ==
    HttpFail(Raised(calls), observed, << >>, 500, detail, n)
HttpReply(calls, observed, msgs, value, tid, n) ==
    Finish(calls, observed, msgs,
           Out(FALSE, 200, TRUE, value, Empty, tid, Empty, 0), threads, n)

\* the 500 answer to a request made while the configuration is incomplete;
\* `report` is what its body says about the two required settings
ConfigurationError(error, report) ==
    Out(FALSE, 500, FALSE, report, error, None, Empty, 0)

\* debug: {"endpoint_set": bool(endpoint), "agent_id_set": bool(agent_id)}
ConfigDebug(e) ==
    <<IF e.endpoint THEN "endpoint_set" ELSE "endpoint_not_set",
      IF e.agent_id THEN "agent_id_set" ELSE "agent_id_not_set">>

\* the 500 answer when both credentials failed: its debug object carries
\* the error of each of the two
AuthenticationError ==
    Out(FALSE, 500, FALSE, <<"managed_identity_error", "default_credential_error">>,
        S("Authentication configuration error"), None, Empty, 0)

\* str(run.last_error): "None" when the run carries no error
StrOf(last_error) == IF last_error = Empty THEN S("None") ELSE last_error

main ==
    /\ Handling("main") /\ deployment = "api"
    /\ LET p == req.payload
       IN IF p = OptionsRequest
          THEN Return(Preflight(200, deployment))
          ELSE IF p.body = "invalid_json"
          THEN HttpFail(<< >>, << >>, << >>, 500, S("invalid json"), nThreads)
          ELSE IF p.body \in {"empty_object", "array"} \/ ~p.has_message
          THEN HttpFail(<< >>, << >>, << >>, 400, S("Message is required"), nThreads)
          ELSE IF ~env.endpoint \/ ~env.agent_id
          THEN Finish(<< >>, << >>, << >>,
                      ConfigurationError(
                        S("Server configuration error. Missing environment variables."),
                        ConfigDebug(env)),
                      threads, nThreads)
          ELSE \E cred \in {<<Ok>>, <<AzureErr, Ok>>, <<AzureErr, OtherErr>>} :
            LET tokens == [i \in 1..Len(cred) |-> "get_token"]
            IN IF Last(cred) # Ok
               THEN Finish(tokens, << >>, << >>, AuthenticationError, threads, nThreads)
               ELSE \E ctor \in CallOutcomes :
                 IF ctor # Ok
                 THEN HttpFail(tokens, << >>, << >>, 500, ctor.msg, nThreads)
                 ELSE \E ga \in CallOutcomes :
                   LET c1 == Append(tokens, "get_agent")
                   IN IF ga # Ok
                      THEN HttpRaise(c1, << >>, ga.msg, nThreads)
                      ELSE \E ct \in CallOutcomes :
                        LET c2 == Append(c1, "create_thread")
                        IN IF ct # Ok
                           THEN HttpRaise(c2, << >>, ct.msg, nThreads)
                           ELSE \E cm \in CallOutcomes :
                             LET c3 == Append(c2, "create_message")
                             IN IF cm # Ok
                                THEN HttpRaise(c3, << >>, cm.msg, nThreads + 1)
                                ELSE \E cr \in CallOutcomes :
                                  LET c4 == Append(c3, "create_and_process")
                                  IN IF cr # Ok
                                     THEN HttpRaise(c4, << >>, cr.msg,
                                                   nThreads + 1)
                                     ELSE \E run \in ProcessedRuns :
                                       IF run.status = "failed"
                                       THEN HttpFail(c4, <<run.status>>, << >>, 500,
                                                     StrOf(run.last_error), nThreads + 1)
                                       ELSE \E lm \in ListOutcomes :
                                         LET c5 == Append(c4, "list_messages")
                                             text == first_assistant_text(lm.data, 1)
                                         IN IF ~lm.ok
                                            THEN \E e \in RemoteErrors :
                                                   HttpRaise(c5, <<run.status>>, e.msg, nThreads + 1)
                                            ELSE HttpReply(c5, <<run.status>>, lm.data,
                                                           IF ~Truthy(text) THEN ApiFallback
                                                           ELSE text,
                                                           None, nThreads + 1)

\* ---------------------------------------------- src/api/chat/__init__.py
ChatFallback ==
    S("Lo siento, no pude generar una respuesta. Por favor, intenta de nuevo.")

\* the for loop over range(max_attempts) around get_run: the status the
\* loop is left with
RECURSIVE attempts_loop(_, _, _)
attempts_loop(script, attempt, observed) ==
    IF attempt < max_attempts
    THEN LET st == StatusAt(script, attempt + 1)
         IN IF st = "error"
            THEN [raised |-> TRUE, polls |-> attempt + 1, observed |-> observed]
            ELSE IF st \in {"completed", "failed", "cancelled"}
            THEN [raised |-> FALSE, polls |-> attempt + 1,
                  observed |-> Append(observed, st)]
            ELSE attempts_loop(script, attempt + 1, Append(observed, st))
    ELSE [raised |-> FALSE, polls |-> attempt, observed |-> observed]

\* the run the handler goes on with: what create_and_run returns, what
\* create_and_process returns, or create_run followed by the poll loop
RunsOf(sdk) ==
    IF sdk = "create_and_run"
    THEN {[raised |-> FALSE, calls |-> <<"create_and_run">>,
           observed |-> <<st>>, last_error |-> Empty]
            : st \in NonTerminal \cup Terminal}
    ELSE IF sdk = "runs"
    THEN {[raised |-> FALSE, calls |-> <<"create_and_process">>,
           observed |-> <<r.status>>, last_error |-> r.last_error]
            : r \in ProcessedRuns}
    ELSE {LET a == attempts_loop(s, 0, <<"queued">>)
          IN [raised |-> a.raised, calls |-> <<"create_run">> \o Polls(a.polls),
              observed |-> a.observed, last_error |-> Empty]
            : s \in RunScripts}

\* the client main ends up with: built from the API key, built from an
\* identity credential, or none when that constructor raises too
ChatClients(e) ==
    (IF e.api_key THEN {"api_key"} ELSE {}) \cup {"identity", "none"}

\* for msg in messages: first assistant message whose first content item
\* carries non-empty text
RECURSIVE first_assistant_content(_, _)
first_assistant_content(msgs, i) ==
    IF i > Len(msgs) THEN Empty
    ELSE IF msgs[i].role = "assistant" /\ msgs[i].text_messages # << >>
            /\ Truthy(msgs[i].text_messages[1])
    THEN msgs[i].text_messages[1]
    ELSE first_assistant_content(msgs, i + 1)

\* the `missing` list of the 500 body
MissingBoth(e) ==
    <<"AZURE_EXISTING_AIPROJECT_ENDPOINT", "AZURE_EXISTING_AGENT_ID">>
Missing(e) ==
    (IF ~e.endpoint THEN <<"AZURE_EXISTING_AIPROJECT_ENDPOINT">> ELSE << >>)
    \o (IF ~e.agent_id THEN <<"AZURE_EXISTING_AGENT_ID">> ELSE << >>)

main_chat ==
    /\ Handling("main") /\ deployment = "api_chat"
    /\ LET p == req.payload
       IN IF p = OptionsRequest
          THEN Return(Preflight(200, deployment))
          ELSE IF p.body = "invalid_json"
          THEN HttpFail(<< >>, << >>, << >>, 500, S("invalid json"), nThreads)
          ELSE IF p.body \in {"empty_object", "array"} \/ ~p.has_message
          THEN HttpFail(<< >>, << >>, << >>, 400, S("Message is required"), nThreads)
          ELSE IF ~env.endpoint \/ ~env.agent_id
          THEN Finish(<< >>, << >>, << >>,
                      ConfigurationError(S("Missing environment variables"),
                                         Missing(env)),
                      threads, nThreads)
          ELSE \E client \in ChatClients(env) :
            IF client = "none"
            THEN HttpFail(<< >>, << >>, << >>, 500, S("Authentication failed"),
                          nThreads)
            ELSE \E ct \in CallOutcomes :
              IF ct # Ok
              THEN HttpRaise(<<"create_thread">>, << >>, ct.msg, nThreads)
              ELSE \E cm \in CallOutcomes :
                IF cm # Ok
                THEN HttpRaise(<<"create_thread", "create_message">>, << >>, cm.msg, nThreads + 1)
                ELSE \E cr \in CallOutcomes :
                  LET made == <<"create_thread", "create_message">>
                  IN IF cr # Ok
                     THEN HttpRaise(Append(made, IF env.sdk = "runs"
                                                THEN "create_and_process"
                                                ELSE env.sdk), << >>, cr.msg, nThreads + 1)
                     ELSE \E run \in RunsOf(env.sdk) :
                       LET calls == made \o run.calls
                       IN IF run.raised
                          THEN \E e \in RemoteErrors :
                                 HttpRaise(calls, run.observed, e.msg,
                                          nThreads + 1)
                          ELSE IF Last(run.observed) = "failed"
                          THEN HttpFail(calls, run.observed, << >>, 500,
                                        IF Truthy(run.last_error) THEN run.last_error
                                        ELSE S("Unknown error"),
                                        nThreads + 1)
                          ELSE \E lm \in ListOutcomes :
                            LET text == first_assistant_content(lm.data, 1)
                            IN IF ~lm.ok
                               THEN \E e \in RemoteErrors :
                                      HttpRaise(Append(calls, "list_messages"), run.observed, e.msg,
                                               nThreads + 1)
                               ELSE HttpReply(Append(calls, "list_messages"),
                                              run.observed, lm.data,
                                              IF ~Truthy(text) THEN ChatFallback ELSE text,
                                              None, nThreads + 1)

\* ------------------------------------------------------- src/api/chat.py
chat ==
    /\ Handling("chat") /\ deployment = "flask"
    /\ LET p == req.payload
           message == IF p.has_message THEN p.message ELSE Empty
       IN IF p.body \in {"invalid_json", "array"}
          THEN HttpFail(<< >>, << >>, << >>, 500, S("bad request body"), nThreads)
          ELSE \E ga \in CallOutcomes :
            IF ga # Ok
            THEN HttpRaise(<<"get_agent">>, << >>, ga.msg, nThreads)
            ELSE \E ct \in CallOutcomes :
              IF ct # Ok
              THEN HttpRaise(<<"get_agent", "create_thread">>, << >>, ct.msg, nThreads)
              ELSE \E cm \in CallOutcomes :
                IF cm # Ok
                THEN HttpRaise(<<"get_agent", "create_thread", "create_message">>, << >>, cm.msg, nThreads + 1)
                ELSE \E cr \in CallOutcomes :
                  LET sent == <<"get_agent", "create_thread", "create_message",
                                "create_and_process">>
                  IN IF cr # Ok
                     THEN HttpRaise(sent, << >>, cr.msg, nThreads + 1)
                     ELSE \E run \in ProcessedRuns :
                       IF run.status = "failed"
                       THEN HttpFail(sent, <<run.status>>, << >>, 500,
                                     S("Agent failed"), nThreads + 1)
                       ELSE \E lm \in ListOutcomes :
                         LET calls == Append(sent, "list_messages")
                         IN IF ~lm.ok
                            THEN \E e \in RemoteErrors :
                                   HttpRaise(calls, <<run.status>>, e.msg,
                                            nThreads + 1)
                            ELSE IF lm.data = << >>
                            THEN HttpReply(calls, <<run.status>>, lm.data, Empty, None,
                                           nThreads + 1)
                            ELSE IF lm.data[1].text_messages = << >>
                            THEN HttpFail(calls, <<run.status>>, lm.data, 500,
                                          S("list index out of range"), nThreads + 1)
                            ELSE HttpReply(calls, <<run.status>>, lm.data,
                                           Last(lm.data[1].text_messages), None,
                                           nThreads + 1)

\* ----------------------------------- src/error/app/search_service.py
\* what search_client.search does: it raises, or returns `hits` documents;
\* content "null": the document's content field is null
SearchBackend ==
    {b \in [raised : BOOLEAN, hits : {0, 1}, content : {"text", "null"}] :
       b.content = "null" => (~b.raised /\ b.hits = 1)}
\* DirectSearchService.search: the results, or [] when the client raised
search(backend) ==
    IF backend.raised
    THEN [count |-> 0, content |-> "text", calls |-> Raised(<<"search">>)]
    ELSE [count |-> backend.hits, content |-> backend.content, calls |-> <<"search">>]

\* ------------------------- src/app/function_app.py: direct_search_query_http
format_search_response(result_count, correlation_id, http, emitted) ==
    Out(FALSE, http, TRUE,
        IF result_count = 0
        THEN S("No se encontraron resultados relevantes para tu consulta.")
        ELSE S("Basado en la informacion encontrada en tus documentos:"),
        Empty, None, correlation_id, emitted) @@ [result_count |-> result_count]
\* _build_search_response_text: result.content[:300] on a content of None
NotSubscriptable == S("'NoneType' object is not subscriptable")
\* the except block of direct_search_query_http
SearchError(error, correlation_id) ==
    Out(FALSE, 500, FALSE, S("Error en busqueda: ") \o error, error, None,
        correlation_id, 0)

DirectSearchQueryHttp ==
    /\ Handling("direct_search_query_http")
    /\ LET p == req.payload
       IN IF p.body \in {"invalid_json", "array"}
          \* the except block reads correlation_id, which was never bound
          THEN Return(Unhandled)
          ELSE IF p.body = "empty_object"
          THEN Return(HttpError(400, S("No se proporcionaron datos"), Empty))
          ELSE LET query == IF p.has_message THEN p.message ELSE Empty
                   correlation_id ==
                       IF p.correlation = Empty THEN S("unknown") ELSE p.correlation
               IN IF ~Truthy(query)
                  THEN Return(HttpError(400, S("Query es requerido"), Empty))
                  ELSE \E backend \in SearchBackend :
                         LET search_results == search(backend)
                         IN IF search_results.content = "null"
                            THEN Finish(search_results.calls, << >>, << >>,
                                        SearchError(NotSubscriptable, correlation_id),
                                        threads, nThreads)
                            ELSE Finish(search_results.calls, << >>, << >>,
                                        format_search_response(search_results.count,
                                                               correlation_id, 200, 0),
                                        threads, nThreads)

\* except Exception as e: logging.error(...) and nothing else
Logged == Out(FALSE, 0, FALSE, Empty, Empty, None, Empty, 0)

\* direct_search_query_queue (direct_search_query of src/error/app is the
\* same code)
DirectSearchQueryQueue ==
    /\ Handling("direct_search_query_queue")
    /\ LET message_data == parse_queue_message(req.payload)
       IN IF ~message_data.ok
          THEN Return(Logged)
          ELSE \E backend \in SearchBackend :
                 LET search_results == search(backend)
                 IN IF search_results.content = "null"
                    THEN Finish(search_results.calls, << >>, << >>, Logged,
                                threads, nThreads)
                    ELSE Finish(search_results.calls, << >>, << >>,
                                format_search_response(search_results.count,
                                                       message_data.correlation_id,
                                                       0, 1),
                                threads, nThreads)

\* ----------------------------------------------------------------- transport
Deployments == {"app", "api", "api_chat", "flask"} \cup FunctionApps

HandlersOf(d) ==
    IF d = "app"
    THEN {"process_agent_conversation_http", "process_agent_conversation_queue",
          "direct_search_query_http", "direct_search_query_queue"}
    ELSE IF d \in FunctionApps
    THEN {"chat_endpoint", "chat_options", "health_check", "test_endpoint",
          "debug_endpoint"}
    ELSE IF d = "flask" THEN {"chat"}
    ELSE {"main"}

\* GET requests carry no body
PayloadsOf(h) ==
    IF h \in {"health_check", "test_endpoint", "debug_endpoint"} THEN {NoPayload}
    ELSE IF h = "chat_options" THEN {OptionsRequest}
    ELSE IF h = "main" THEN Payloads \cup {OptionsRequest}
    ELSE Payloads

\* the runtime delivers the next request once the one in hand is answered
Receive ==
    /\ req.stage # "received"
    /\ handled < MaxRequests
    /\ \E h \in HandlersOf(deployment) :
         \E p \in PayloadsOf(h) : req' = Received(h, p)
    /\ prev' = Summary(req)
    /\ handled' = handled + 1
    /\ UNCHANGED <<deployment, reading, threads, nThreads, env, globals, workers>>

\* ------------------------------------------------------------ specification
EnvsOf(d) ==
    IF d \in FunctionApps
    THEN {Env(k, m, TRUE, TRUE, "runs") : k \in BOOLEAN, m \in BOOLEAN}
    ELSE IF d = "api"
    THEN {Env(FALSE, FALSE, e, a, "runs") : e \in BOOLEAN, a \in BOOLEAN}
    ELSE IF d = "api_chat"
    THEN {Env(k, FALSE, TRUE, TRUE, sdk)
            : k \in BOOLEAN, sdk \in {"create_and_run", "runs", "create_run"}}
         \cup {Env(FALSE, FALSE, e, a, "runs")
                 : e \in BOOLEAN, a \in BOOLEAN}
    ELSE {NoEnv}

NoReading == [listing |-> << >>, replies |-> << >>]

\* the state once the module is imported: the function apps run
\* initialize_client() at import
Init ==
    /\ deployment \in Deployments
    /\ env \in EnvsOf(deployment)
    /\ threads = {}
    /\ nThreads = 0
    /\ handled = 0
    /\ req = NoRequest
    /\ prev = Summary(NoRequest)
    /\ workers = << >>
    /\ reading = NoReading
    /\ \E g \in (IF deployment \in FunctionApps
                 THEN {After(i) : i \in InitializeClient(deployment, env, Fresh)}
                 ELSE {Fresh}) :
         /\ project = g.project
         /\ initialization_error = g.initialization_error
         /\ api_key_status = g.api_key_status
         /\ init_log = g.init_log

Next ==
    \/ Receive
    \/ ProcessAgentConversationHttp
    \/ ProcessAgentConversationQueue
    \/ chat_endpoint
    \/ chat_endpoint_identity_test
    \/ chat_endpoint_falled
    \/ chat_options
    \/ health_check
    \/ health_check_identity_test
    \/ health_check_falled
    \/ test_endpoint
    \/ debug_endpoint
    \/ main
    \/ main_chat
    \/ chat
    \/ DirectSearchQueryHttp
    \/ DirectSearchQueryQueue

Spec == Init /\ [][Next]_vars

\* ------------------------------------------------- requests in progress at once
\* The Functions worker runs synchronous handlers on a thread pool, and every
\* remote call blocks: other requests run between a handler's steps.
Worker(pc, key, thread, ret, replaced, on_none, success) ==
    [pc |-> pc, key |-> key, thread |-> thread, ret |-> ret,
     replaced |-> replaced, on_none |-> on_none, success |-> success]
Starting(key) == Worker("start", key, None, "none", FALSE, FALSE, FALSE)
Step1(w, next) == workers' = [workers EXCEPT ![w] = next]
At(w, pc) == workers[w].pc = pc

\* src/app/agent_client.py, chat_with_agent
\* if thread_id and thread_id in self.threads: thread = self.threads[thread_id]
lookup_thread(w) ==
    /\ deployment = "app" /\ At(w, "start")
    /\ LET me == workers[w]
           hit == TruthyId(me.key) /\ me.key \in CacheKeys(threads)
       IN Step1(w, [me EXCEPT !.pc = IF hit THEN "message" ELSE "create",
                              !.thread = IF hit THEN Cached(threads, me.key) ELSE None])
    /\ UNCHANGED <<deployment, reading, threads, nThreads, handled, req, prev, env, globals>>

\* thread = self.project_client.agents.create_thread()
create_thread(w) ==
    /\ deployment = "app" /\ At(w, "create")
    /\ \E ct \in CallOutcomes :
         IF ct = Ok
         THEN /\ Step1(w, [workers[w] EXCEPT !.pc = "insert",
                                             !.thread = ThreadId(nThreads + 1)])
              /\ nThreads' = nThreads + 1
         ELSE /\ Step1(w, [workers[w] EXCEPT !.pc = "done"])
              /\ UNCHANGED nThreads
    /\ UNCHANGED <<deployment, reading, threads, handled, req, prev, env, globals>>

\* if thread_id: self.threads[thread_id] = thread
cache_thread(w) ==
    /\ deployment = "app" /\ At(w, "insert")
    /\ LET me == workers[w]
       IN IF TruthyId(me.key)
          THEN /\ threads' = CachePut(threads, me.key, me.thread)
               /\ Step1(w, [me EXCEPT !.pc = "message",
                                      !.replaced = me.key \in CacheKeys(threads)])
          ELSE /\ Step1(w, [me EXCEPT !.pc = "message"])
               /\ UNCHANGED threads
    /\ UNCHANGED <<deployment, reading, nThreads, handled, req, prev, env, globals>>

\* create_message, create_run, _wait_for_response on the thread in hand
converse(w) ==
    /\ deployment = "app" /\ At(w, "message")
    /\ \E ok \in BOOLEAN :
         Step1(w, [workers[w] EXCEPT !.pc = "done", !.success = ok])
    /\ UNCHANGED <<deployment, reading, threads, nThreads, handled, req, prev, env, globals>>

\* src/azure_functions/function_app.py, chat_endpoint and initialize_client
\* if not project: ... initialize_client()
check_project(w) ==
    /\ deployment = "azure_functions" /\ At(w, "start")
    /\ Step1(w, [workers[w] EXCEPT !.pc = IF NoProject(project) THEN "init" ELSE "body"])
    /\ UNCHANGED <<deployment, reading, threads, nThreads, handled, req, prev, env, globals>>

\* project = AIProjectClient(...), with the API key or else the identity
build_client(w) ==
    /\ deployment = "azure_functions" /\ At(w, "init")
    /\ IF env.api_key \/ env.msi
       THEN \E built \in BOOLEAN :
              IF built
              THEN /\ project' = Client(IF env.api_key THEN "api_key"
                                        ELSE "managed_identity", FALSE)
                   /\ api_key_status' = IF env.api_key THEN "found" ELSE "not_found"
                   /\ Step1(w, [workers[w] EXCEPT !.pc = "verify"])
                   /\ UNCHANGED initialization_error
              ELSE /\ project' = None
                   /\ api_key_status' = IF env.api_key THEN "found" ELSE "not_found"
                   /\ initialization_error' = AzureErr.msg
                   /\ Step1(w, [workers[w] EXCEPT !.pc = "done", !.ret = "failed"])
       ELSE /\ initialization_error' = S("Ni API Key ni Managed Identity disponibles")
            /\ api_key_status' = "not_found"
            /\ Step1(w, [workers[w] EXCEPT !.pc = "done", !.ret = "failed"])
            /\ UNCHANGED project
    /\ UNCHANGED <<deployment, reading, threads, nThreads, handled, req, prev, env, init_log>>

\* agent = project.agents.get_agent(AGENT_ID): return True, or project = None
verify_client(w) ==
    /\ deployment = "azure_functions" /\ At(w, "verify")
    /\ \E ga \in {Ok, AzureErr} :
         IF project # None /\ ga = Ok
         THEN /\ Step1(w, [workers[w] EXCEPT !.pc = "body", !.ret = "ok"])
              /\ api_key_status' = IF env.api_key THEN api_key_status
                                   ELSE "managed_identity"
              /\ UNCHANGED <<project, initialization_error>>
         ELSE /\ project' = None
              /\ initialization_error' =
                   IF project = None
                   THEN S("'NoneType' object has no attribute 'agents'")
                   ELSE IF env.api_key
                   THEN S("Cliente creado pero no puede acceder al agente: ") \o ga.msg
                   ELSE ga.msg
              /\ Step1(w, [workers[w] EXCEPT !.pc = "done", !.ret = "failed"])
              /\ UNCHANGED api_key_status
    /\ UNCHANGED <<deployment, reading, threads, nThreads, handled, req, prev, env, init_log>>

\* the try block: project.agents.get_agent(AGENT_ID) and the rest
run_body(w) ==
    /\ deployment = "azure_functions" /\ At(w, "body")
    /\ IF project = None
       THEN Step1(w, [workers[w] EXCEPT !.pc = "done", !.on_none = TRUE])
       ELSE \E ok \in BOOLEAN :
              Step1(w, [workers[w] EXCEPT !.pc = "done", !.success = ok])
    /\ UNCHANGED <<deployment, reading, threads, nThreads, handled, req, prev, env, globals>>

\* NWorkers requests are in progress; the function app's client is not
\* installed (initialize_client() failed at import)
InitConcurrent ==
    /\ deployment \in {"app", "azure_functions"}
    /\ env \in EnvsOf(deployment)
    /\ threads = {}
    /\ nThreads = 0
    /\ handled = NWorkers
    /\ req = NoRequest
    /\ prev = Summary(NoRequest)
    /\ workers \in [1..NWorkers -> {Starting(k) : k \in IF deployment = "app"
                                                       THEN {None} \cup SessionKeys
                                                       ELSE {None}}]
    /\ reading = NoReading
    /\ \E g \in (IF deployment = "azure_functions"
                 THEN {After(i) : i \in {j \in initialize_client(env, Fresh) : ~j.ret}}
                 ELSE {Fresh}) :
         /\ project = g.project
         /\ initialization_error = g.initialization_error
         /\ api_key_status = g.api_key_status
         /\ init_log = g.init_log

NextConcurrent ==
    \E w \in 1..NWorkers :
       \/ lookup_thread(w)
       \/ create_thread(w)
       \/ cache_thread(w)
       \/ converse(w)
       \/ check_project(w)
       \/ build_client(w)
       \/ verify_client(w)
       \/ run_body(w)

SpecConcurrent == InitConcurrent /\ [][NextConcurrent]_vars

\* ------------------------------------------ reading a completed run's thread
\* a walk that turns the list round in place
WalkedInPlace(listing) == Reverse(listing)
\* list(messages) / for message in messages.data: the listing is walked,
\* not changed
Walked(listing) == listing

Read(reply) ==
    /\ Len(reading.replies) < MaxReads
    /\ reading' = [listing |-> Walked(reading.listing),
                   replies |-> Append(reading.replies, reply)]
    /\ UNCHANGED <<deployment, threads, nThreads, handled, req, prev, env, globals,
                   workers>>

\* the completed branch of _wait_for_response: list, first assistant message
read_wait_for_response ==
    /\ deployment = "app"
    /\ LET a == first_assistant(reading.listing, 1)
       IN Read(IF ~a.found THEN [returned |-> FALSE, text |-> TimeoutText]
               ELSE [returned |-> ~a.raised, text |-> a.text])

\* chat_endpoint after the run: list in ascending order, extract
read_chat_endpoint ==
    /\ deployment = "azure_functions"
    /\ Read([returned |-> TRUE, text |-> Extract(deployment, reading.listing)])

\* a process whose run has completed; the remote thread holds `listing` and
\* does not change
InitRead ==
    /\ deployment \in {"app", "azure_functions"}
    /\ env \in EnvsOf(deployment)
    /\ threads = {}
    /\ nThreads = 1
    /\ handled = 1
    /\ req = NoRequest
    /\ prev = Summary(NoRequest)
    /\ workers = << >>
    /\ reading \in [listing : MsgLists, replies : {<< >>}]
    /\ \E g \in (IF deployment = "azure_functions"
                 THEN {After(i) : i \in {j \in initialize_client(env, Fresh) : j.ret}}
                 ELSE {Fresh}) :
         /\ project = g.project
         /\ initialization_error = g.initialization_error
         /\ api_key_status = g.api_key_status
         /\ init_log = g.init_log

NextRead == read_wait_for_response \/ read_chat_endpoint
SpecRead == InitRead /\ [][NextRead]_vars

\* ------------------------------------------------ the two extraction loops
\* what a loop ends with: the fallback of its app, or a text of the thread
Outcome(d, bot_response) ==
    IF bot_response = Fallback(d) THEN [fallback |-> TRUE, text |-> Empty]
    ELSE [fallback |-> FALSE, text |-> bot_response]

\* the loop of chat_endpoint in this app (reverse scan) and the loop of
\* chat_endpoint in src/falled (forward scan), run on the same listing
extract_both ==
    /\ reading.replies = << >>
    /\ reading' =
         [listing |-> Walked(reading.listing),
          replies |-> <<[reversed |-> Outcome(deployment,
                                              Extract(deployment, reading.listing)),
                         forward |-> Outcome("falled",
                                             Extract("falled", reading.listing))]>>]
    /\ UNCHANGED <<deployment, threads, nThreads, handled, req, prev, env, globals,
                   workers>>

\* a function app with a client, after a completed run; the listing is in
\* ascending order and holds user and assistant messages only
InitExtract ==
    /\ deployment \in {"azure_functions", "identity_test"}
    /\ env \in EnvsOf(deployment)
    /\ threads = {}
    /\ nThreads = 1
    /\ handled = 1
    /\ req = NoRequest
    /\ prev = Summary(NoRequest)
    /\ workers = << >>
    /\ reading \in [listing : MsgLists, replies : {<< >>}]
    /\ \E g \in {After(i) : i \in {j \in InitializeClient(deployment, env, Fresh)
                                      : j.project # None}} :
         /\ project = g.project
         /\ initialization_error = g.initialization_error
         /\ api_key_status = g.api_key_status
         /\ init_log = g.init_log

NextExtract == extract_both
SpecExtract == InitExtract /\ [][NextExtract]_vars


\* -------------------------------------------------------------- properties
Done == req.stage = "done"
AgentHandlers == {"process_agent_conversation_http", "process_agent_conversation_queue"}
Has(calls, name) == \E i \in 1..Len(calls) : calls[i] = name
Observed(status) == \E i \in 1..Len(req.observed) : req.observed[i] = status
LastObserved == IF req.observed = << >> THEN "none" ELSE Last(req.observed)
\* the listing call was made and returned
Listed == Has(req.calls, "list_messages") /\ ~Has(req.calls, "raise")

\* C1: a chat request without `message`, or with an empty or whitespace-only
\* one, gets the validation outcome (HTTP 400, no success) and makes no
\* remote call at all, whatever the state of the process-wide client, on the
\* HTTP and on the queue transport.
C1_InvalidMessageMakesNoRemoteCall ==
    ( /\ Done
      /\ \/ deployment \in {"api", "azure_functions"}
         \/ deployment = "app" /\ req.handler = "process_agent_conversation_queue"
      /\ req.payload.body \in {"object", "empty_object"}
      /\ InvalidMessage(req.payload) )
    => /\ req.calls = << >>
       /\ ~req.out.success
       /\ ~req.out.raised
       /\ req.handler # "process_agent_conversation_queue" => req.out.http = 400

\* C2: messages are listed and a success is answered only after the run was
\* observed "completed"; a poll budget used up on a non-terminal status ends
\* without a listing and without a success.
C2_NoResultForPendingRun ==
    ( /\ Done
      /\ \/ deployment = "app" /\ req.handler \in AgentHandlers
         \/ deployment = "api_chat"
      /\ Has(req.calls, "list_messages") \/ req.out.success )
    => Observed("completed")

\* C3: a run seen "completed" whose messages were listed ends in a success
\* with a non-empty text: the assistant's text, or the fallback string when
\* there is no assistant message or no usable text.
C3_CompletedRunYieldsNonEmptySuccess ==
    ( /\ Done
      /\ \/ deployment = "app" /\ req.handler \in AgentHandlers
         \/ deployment = "azure_functions"
      /\ LastObserved = "completed"
      /\ Listed )
    => req.out.success /\ Truthy(req.out.value)

\* the failure text of an answer: `details` of an HTTP error body, or the
\* content of a success == false envelope
FailureDetail(out) == IF Truthy(out.detail) THEN out.detail ELSE out.value

BudgetExhausted ==
    /\ Len(req.observed) = max_wait
    /\ \A i \in 1..Len(req.observed) : req.observed[i] \in NonTerminal

\* C5: a run that ends "failed", "expired" or "cancelled", or that times out
\* locally, is answered with an error: the handler does not list messages
\* and answer a success for it.
C5_NonCompletedRunIsAnError ==
    ( /\ Done
      /\ \/ deployment = "app" /\ req.handler \in AgentHandlers
         \/ deployment \in {"azure_functions", "falled"}
      /\ \/ LastObserved \in {"failed", "expired", "cancelled"}
         \/ deployment = "app" /\ BudgetExhausted )
    => ~req.out.success /\ ~Has(req.calls, "list_messages")

\* the answer carries the timeout text of _wait_for_response
TimedOut == req.out.value = S("Error: ") \o TimeoutText

\* C6: where no call raised, the timeout outcome is produced exactly when
\* all max_wait polls saw a non-terminal status: not before the budget is
\* used up, and never for a run that reached a terminal status within it.
C6_TimeoutIffBudgetExhausted ==
    ( /\ Done
      /\ deployment = "app" /\ req.handler \in AgentHandlers
      /\ Has(req.calls, "create_run")
      /\ ~Has(req.calls, "raise") )
    => (TimedOut <=> BudgetExhausted)

\* C7: of two requests served one after the other, both successfully, the
\* two make one create-thread call in total when they carry the same session
\* key, and two when their keys differ or are absent.
C7_SessionReuse ==
    ( /\ Done
      /\ \/ deployment = "app" /\ req.handler \in AgentHandlers
                               /\ prev.handler \in AgentHandlers
         \/ deployment = "azure_functions" /\ prev.handler = "chat_endpoint"
      /\ prev.success /\ req.out.success )
    => prev.creates + Count(req.calls, "create_thread")
         = IF req.payload.session # None /\ req.payload.session = prev.session
           THEN 1 ELSE 2

\* position of a remote call in the workflow
Step(call) ==
    IF call = "create_thread" THEN 1
    ELSE IF call = "create_message" THEN 2
    ELSE IF call \in {"create_run", "create_and_process"} THEN 3
    ELSE IF call = "get_run" THEN 4
    ELSE IF call = "list_messages" THEN 5
    ELSE 0

\* C8: the remote calls of one request come in the order thread, message,
\* run, polls, listing, each step at most once apart from the polls; the
\* listing comes only after a terminal status was observed; nothing is
\* called after a call that raised.
C8_WorkflowOrder ==
    ( /\ Done
      /\ \/ deployment = "app" /\ req.handler \in AgentHandlers
         \/ deployment \in {"azure_functions", "api"} )
    => LET calls == req.calls
       IN /\ \A i, j \in 1..Len(calls) :
               (i < j /\ Step(calls[i]) > 0 /\ Step(calls[j]) > 0)
               => \/ Step(calls[i]) < Step(calls[j])
                  \/ calls[i] = "get_run" /\ calls[j] = "get_run"
          /\ (\E i \in 1..Len(calls) : Step(calls[i]) = 3)
               => Has(calls, "create_message")
          /\ Has(calls, "list_messages") => LastObserved \in Terminal
          /\ \A i \in 1..Len(calls) : calls[i] = "raise" => i = Len(calls)

\* a request that went through the whole workflow with two polls
C8_Witness ==
    /\ Done
    /\ deployment = "app"
    /\ req.calls = <<"create_thread", "create_message", "create_run",
                     "get_run", "get_run", "list_messages">>
    /\ req.observed = <<"queued", "completed">>
    /\ req.out.success

\* C9: whatever fails while a request is handled (a body that is no JSON, a
\* remote call, the agent client), no exception leaves the HTTP and queue
\* handlers, and a failure is answered with success == false.
C9_NoErrorEscapes ==
    (Done /\ deployment = "app")
    => /\ ~req.out.raised
       /\ (req.payload.body \in {"invalid_json", "array"} \/ Has(req.calls, "raise"))
            => ~req.out.success

Rank(mechanism) ==
    IF mechanism = "api_key" THEN 1
    ELSE IF mechanism = "managed_identity" THEN 2
    ELSE 3
Tried(mechanism) ==
    \E i \in 1..Len(init_log.tried) : init_log.tried[i].mechanism = mechanism

\* C10: initialize_client tries API key, managed identity and the default
\* chain in that order; the first one built and verified wins and ends the
\* resolution; one failing does not end it, so it returns False only after
\* every mechanism the environment offers, and the default chain, has failed.
C10_CredentialOrder ==
    (deployment \in {"azure_functions", "identity_test"} /\ init_log.ran)
    => LET tried == init_log.tried
       IN /\ \A i, j \in 1..Len(tried) :
               i < j => Rank(tried[i].mechanism) < Rank(tried[j].mechanism)
          /\ \A i \in 1..Len(tried) : tried[i].result = "ok" => i = Len(tried)
          /\ init_log.ret <=> (tried # << >> /\ Last(tried).result = "ok")
          /\ ~init_log.ret =>
               /\ env.api_key => Tried("api_key")
               /\ env.msi => Tried("managed_identity")
               /\ Tried("default_credential")

\* a request of a function app goes from received to answered in this step
Answers == deployment \in FunctionApps /\ req.stage = "received" /\ req'.stage = "done"

\* C11: resolution runs at process start; a chat, health, test or debug
\* request runs it again only when it finds no client installed; once a
\* resolution has succeeded no later request runs it or changes the client.
C11_OneClientPerProcess ==
    [][ Answers =>
          /\ init_log.ran
          /\ Has(req'.calls, "initialize_client") => project = None
          /\ init_log.ret =>
               /\ ~Has(req'.calls, "initialize_client")
               /\ project' = project
               /\ init_log' = init_log ]_vars

\* a second request answered after a successful resolution, the first one
\* having been a health check that had to retry
C11_Witness ==
    /\ Done
    /\ deployment = "azure_functions"
    /\ handled = 2
    /\ prev.handler = "health_check"
    /\ prev.retried
    /\ init_log.ret
    /\ project # None
    /\ ~Has(req.calls, "initialize_client")

\* the request ended on a remote call that raised e
FailedWith(e) == Has(req.calls, "raise") /\ FailureDetail(req.out) = e.msg

\* C12: a chat request that finds a client installed uses it without
\* resolving again, unless one of its agent calls fails with an
\* authentication-class error: then resolution is run once more and the
\* call repeated before the error is answered.
C12_ReResolveOnAuthFailure ==
    ( /\ Done
      /\ deployment \in {"azure_functions", "identity_test"}
      /\ req.handler = "chat_endpoint"
      /\ FailedWith(AuthErr) )
    => /\ Count(req.calls, "initialize_client") = 1
       /\ \E i, j \in 1..Len(req.calls) :
            i < j /\ Step(req.calls[i]) = Step(req.calls[j])
                  /\ req.calls[i] = req.calls[j]

\* C13: with requests in progress at once, an entry of the session cache is
\* never replaced: the insert of a request that created its own thread puts
\* it only where the key has no thread yet, so every later request with the
\* key finds the thread of the first insert.
C13_InsertIfAbsent ==
    deployment = "app" => \A w \in DOMAIN workers : ~workers[w].replaced

\* C14: with two requests running initialize_client at once, a client that
\* a resolution installed and verified is not cleared by the other one's
\* failure, and no request goes on to its agent calls with project == None.
C14_ClientSafeUnderConcurrency ==
    deployment = "azure_functions" =>
      \A w \in DOMAIN workers :
         /\ ~workers[w].on_none
         /\ (workers[w].ret = "ok" /\ workers[w].pc = "body") => project # None

\* C15: a run whose status sequence ends in "failed" is answered by the
\* HTTP chat handler with status 500 and the failure reason in the details,
\* never with HTTP 200.
C15_FailedRunIsHttp500 ==
    ( /\ Done
      /\ \/ deployment = "app" /\ req.handler = "process_agent_conversation_http"
         \/ deployment = "azure_functions" /\ req.handler = "chat_endpoint"
      /\ LastObserved = "failed" )
    => /\ req.out.http = 500
       /\ Truthy(FailureDetail(req.out))

\* C16: an AzureError raised by get-agent, create-thread, create-message,
\* the run or list-messages is answered with HTTP 502; other internal
\* failures are answered with HTTP 500.
C16_AzureErrorIsHttp502 ==
    (Done /\ deployment = "api" /\ Has(req.calls, "raise"))
    => /\ FailedWith(AzureErr) => req.out.http = 502
       /\ FailedWith(OtherErr) => req.out.http = 500

\* C17: a chat request for which no credential mechanism succeeds is
\* answered with HTTP 500 that carries one failure reason per attempted
\* mechanism; resolution runs at most once within the request, and no
\* thread, message or run call is made.
C17_NoCredentialIsHttp500 ==
    ( /\ Done
      /\ req.payload.body = "object" /\ req.payload.has_message
      /\ \/ deployment = "identity_test" /\ req.handler = "chat_endpoint"
                                         /\ ~init_log.ret
         \/ deployment = "api" /\ req.calls = <<"get_token", "get_token">>
                               /\ req.out.detail = AuthenticationError.detail )
    => /\ req.out.http = 500
       /\ Len(req.out.value) = IF deployment = "api" THEN 2 ELSE Len(init_log.tried)
       /\ Count(req.calls, "initialize_client") <= 1
       /\ \A i \in 1..Len(req.calls) : Step(req.calls[i]) \notin {1, 2, 3}

\* the required settings a 500 body reports as missing: the names in the
\* `missing` list of api/chat, the settings whose flag is false in the
\* debug object of api
ReportedMissing ==
    IF deployment = "api_chat"
    THEN {req.out.value[i] : i \in 1..Len(req.out.value)}
    ELSE (IF Has(req.out.value, "endpoint_not_set")
          THEN {"AZURE_EXISTING_AIPROJECT_ENDPOINT"} ELSE {})
         \cup (IF Has(req.out.value, "agent_id_not_set")
               THEN {"AZURE_EXISTING_AGENT_ID"} ELSE {})
ActuallyMissing ==
    (IF env.endpoint THEN {} ELSE {"AZURE_EXISTING_AIPROJECT_ENDPOINT"})
    \cup (IF env.agent_id THEN {} ELSE {"AZURE_EXISTING_AGENT_ID"})
ValidChat == req.payload.body = "object" /\ req.payload.has_message

\* C18: a valid chat request made while the endpoint or the agent id is not
\* configured is answered with HTTP 500 whose body reports exactly the
\* missing settings, and nothing is constructed or called for it.
C18_MissingConfigurationIsHttp500 ==
    ( /\ Done /\ deployment \in {"api", "api_chat"} /\ ValidChat
      /\ ActuallyMissing # {} )
    => /\ req.out.http = 500 /\ ~req.out.raised
       /\ ReportedMissing = ActuallyMissing
       /\ req.calls = << >>
       /\ nThreads = 0
C18_Witness ==
    /\ Done /\ deployment \in {"api", "api_chat"} /\ ValidChat
    /\ ActuallyMissing = {"AZURE_EXISTING_AGENT_ID"}
    /\ req.out.http = 500 /\ handled = MaxRequests

\* C19: the health endpoint answers "healthy" with HTTP 200 only when the
\* resolution that installed the current client succeeded and the agent
\* answered the last verification made with that client; it never reports
\* healthy while that verification failed.
C19_HealthyOnlyWhenVerified ==
    ( /\ Done /\ deployment \in FunctionApps /\ req.handler = "health_check"
      /\ (req.out.value = Healthy \/ req.out.http = 200) )
    => /\ req.out.value = Healthy /\ req.out.http = 200
       /\ init_log.ran /\ init_log.ret
       /\ project # None /\ project = Client(project[1], TRUE)
       /\ ~Has(req.calls, "raise")

QueueMessageTaken ==
    Done /\ deployment = "app" /\ req.handler = "process_agent_conversation_queue"
Unparseable == req.payload.body \in {"invalid_json", "array"}
AgentCallFailed ==
    \/ Has(req.calls, "raise")
    \/ req.observed # << >> /\ LastObserved # "completed"

\* C20: every message taken from the agent input queue sets exactly one
\* output message, whether its body parses or not and whether the agent
\* call succeeds or fails; the output carries the input's CorrelationId, or
\* "unknown" when the body could not be parsed, and Success is false on
\* every failure.
C20_OneOutputPerQueueMessage ==
    QueueMessageTaken
    => /\ req.out.emitted = 1 /\ ~req.out.raised
       /\ req.out.correlation = IF Unparseable THEN S("unknown")
                                ELSE req.payload.correlation
       /\ (Unparseable \/ AgentCallFailed) => ~req.out.success
\* an unparseable message answered after a message whose agent call failed
C20_Witness ==
    /\ QueueMessageTaken /\ Unparseable
    /\ req.out.emitted = 1 /\ req.out.correlation = S("unknown")
    /\ prev.handler = "process_agent_conversation_queue"
    /\ prev.creates > 0 /\ ~prev.success

\* chat_with_agent was called for the request in hand and the handler is done
ChatCalled ==
    Done /\ deployment = "app" /\ req.handler \in AgentHandlers /\ req.calls # << >>
\* a remote call raised, the run ended without completing, or the poll
\* budget ran out
FailurePoint ==
    \/ Has(req.calls, "raise")
    \/ LastObserved \in failed_statuses
    \/ BudgetExhausted
StartsWithError(s) == Len(s) >= 1 /\ s[1] = "Error: "

\* C21: every call of chat_with_agent returns exactly one AgentResponse and
\* never raises: whichever of thread creation, message submission, run
\* creation, polling, a failed / expired / cancelled run or the timeout
\* fails, the caller gets one response with success false and the error
\* text, and goes on to answer with it.
C21_OneResponsePerCall ==
    ChatCalled
    => /\ ~req.out.raised
       /\ IF req.handler = "process_agent_conversation_queue"
          THEN req.out.emitted = 1 ELSE req.out.http = 200
       /\ FailurePoint => /\ ~req.out.success
                          /\ StartsWithError(req.out.value)
                          /\ req.out.thread_id = req.payload.session
       /\ req.out.success => req.out.thread_id # None
\* a run that timed out, after a request that failed before any thread existed
C21_Witness ==
    /\ ChatCalled /\ BudgetExhausted /\ ~req.out.success
    /\ prev.handler \in AgentHandlers /\ ~prev.success /\ nThreads = 1

CreateRunCalls == {"create_run", "create_and_run", "create_and_process"}
CountIn(calls, names) == Cardinality({i \in 1..Len(calls) : calls[i] \in names})

\* C22: no retries: one request issues create-message at most once and
\* create-run at most once; when either raises, no remote call follows it
\* (none of the earlier ones is issued again) and the request ends with an
\* error.
C22_NoRetries ==
    ( /\ Done
      /\ \/ deployment = "app" /\ req.handler \in AgentHandlers
         \/ deployment = "api_chat" )
    => /\ Count(req.calls, "create_message") <= 1
       /\ CountIn(req.calls, CreateRunCalls) <= 1
       /\ Count(req.calls, "create_thread") <= 1
       /\ \A i \in 1..(Len(req.calls) - 1) :
            (req.calls[i] \in CreateRunCalls \cup {"create_message"}
             /\ req.calls[i + 1] = "raise")
            => /\ i + 1 = Len(req.calls)
               /\ ~req.out.success
               /\ Truthy(FailureDetail(req.out))
\* run creation raised in api/chat after message submission raised in the
\* request before it
C22_Witness ==
    /\ Done /\ deployment = "api_chat"
    /\ Len(req.calls) = 4 /\ req.calls[4] = "raise"
    /\ req.calls[3] \in CreateRunCalls
    /\ handled = MaxRequests /\ ~prev.success /\ prev.creates = 1

\* the poll budget of the handler in hand
Budget == IF deployment = "app" THEN max_wait ELSE max_attempts
\* every poll of the budget was made and the last one saw a non-terminal status
PolledOut ==
    /\ Count(req.calls, "get_run") = Budget
    /\ ~Has(req.calls, "raise")
    /\ LastObserved \in NonTerminal

\* C23: the poll loop terminates: whatever the remote run does, a request
\* polls the status at most as often as the budget allows, and when the
\* budget is used up on a run that never left a non-terminal status the
\* handler answers with a timeout outcome: no success, no listing.
C23_PollLoopTerminates ==
    ( /\ Done
      /\ \/ deployment = "app" /\ req.handler \in AgentHandlers
         \/ deployment = "api_chat" )
    => /\ Count(req.calls, "get_run") <= Budget
       /\ PolledOut => /\ ~req.out.success
                       /\ ~Has(req.calls, "list_messages")
                       /\ Truthy(FailureDetail(req.out))

\* the listing of the request in hand, oldest message first
Thread == AscendingOrder(deployment = "azure_functions", req.msgs)
NonUser == {i \in 1..Len(Thread) : Thread[i].role # "user"}
MostRecent == Thread[CHOOSE i \in NonUser : \A j \in NonUser : j <= i]
\* a completed run whose listing was answered with a reply
Replied ==
    /\ Done /\ req.out.success /\ Listed /\ LastObserved = "completed"
    /\ \/ deployment = "app" /\ req.handler \in AgentHandlers
       \/ deployment = "azure_functions" /\ req.handler = "chat_endpoint"
       \/ deployment = "api"

\* C24: on a completed run the reply is the last text segment of the most
\* recent non-user message of the thread (the last non-user entry in
\* ascending creation order), not of an earlier message nor of a user
\* message; stated for a most recent message that carries a non-empty last
\* segment.
C24_ReplyIsLastSegmentOfMostRecent ==
    ( /\ Replied /\ NonUser # {}
      /\ MostRecent.text_messages # << >>
      /\ Truthy(Last(MostRecent.text_messages)) )
    => req.out.value = Last(MostRecent.text_messages)

\* C25: a session lives for the process lifetime: whatever request is
\* handled, successful or failed, every entry of the session cache is still
\* there afterwards with the thread it was first given; no step removes or
\* replaces one.
C25_SessionsAreNeverDropped ==
    [][deployment = "app" => threads \subseteq threads']_vars
\* a failed request on a key cached by the request before it; the entry of
\* the first insert is still in place
C25_Witness ==
    /\ Done /\ deployment = "app" /\ req.handler \in AgentHandlers
    /\ handled = MaxRequests
    /\ req.payload.session # None /\ prev.session = req.payload.session
    /\ prev.creates = 1 /\ ~req.out.success /\ req.calls # << >>
    /\ threads = {[key |-> req.payload.session, thread |-> ThreadId(1)]}

RemoteCalls ==
    {"create_thread", "create_message", "create_run", "get_run", "list_messages"}
\* message submission or run creation raised in a request that had created
\* its thread
FailedAfterThread ==
    /\ Done /\ deployment = "app" /\ req.handler \in AgentHandlers
    /\ Has(req.calls, "create_thread")
    /\ \E i \in 2..(Len(req.calls) - 1) :
         req.calls[i] \in {"create_message", "create_run"} /\ req.calls[i + 1] = "raise"

\* C26: partial progress is not rolled back: when message submission or run
\* creation fails after the thread was created, the handler makes no
\* compensating remote call (nothing after the call that raised, no call
\* other than those of the workflow), the remote thread stays, and the
\* session-cache insert for the request's key stays in place.
C26_NoRollback ==
    FailedAfterThread
    => /\ Last(req.calls) = "raise"
       /\ \A i \in 1..(Len(req.calls) - 1) : req.calls[i] \in RemoteCalls
       /\ nThreads >= 1
       /\ req.payload.session # None
            => [key |-> req.payload.session, thread |-> ThreadId(nThreads)] \in threads
       /\ ~req.out.success
\* run creation raised in a request that carried a session key
C26_Witness ==
    /\ FailedAfterThread /\ req.payload.session # None
    /\ req.calls = <<"create_thread", "create_message", "create_run", "raise">>
    /\ threads # {}

AnswersPreflight ==
    /\ req.stage = "received" /\ req'.stage = "done"
    /\ req.payload = OptionsRequest
    /\ deployment \in FunctionApps \cup {"api", "api_chat"}

\* C28: an OPTIONS request on the chat route is answered with status 200 or
\* 204, an empty body and the CORS headers; handling it makes no remote call
\* and changes neither the client, nor the recorded initialisation error,
\* nor the session cache, whatever the state of the client.
C28_PreflightHasNoEffect ==
    [][ AnswersPreflight =>
          /\ req'.out.http \in {200, 204} /\ ~req'.out.raised
          /\ req'.out.value = Empty
          /\ {"Access-Control-Allow-Origin", "Access-Control-Allow-Methods",
              "Access-Control-Allow-Headers"} \subseteq req'.out.headers
          /\ req'.calls = << >>
          /\ UNCHANGED <<threads, nThreads, globals>> ]_vars
\* a preflight answered by a function app that has no client
C28_Witness ==
    /\ Done /\ req.handler = "chat_options" /\ req.out.http = 204
    /\ init_log.ran /\ project = None
    /\ prev.handler = "chat_endpoint"

\* C29: after every call of initialize_client its return value agrees with
\* the global client: it returned True exactly when `project` is not None;
\* when every mechanism failed its verification `project` is None, so that
\* the next request runs the initialisation again.
C29_ReturnAgreesWithClient ==
    (deployment \in FunctionApps /\ init_log.ran)
    => /\ init_log.ret <=> project # None
       /\ project # None => project = Client(project[1], TRUE)

\* the caller sends back, as threadId, the ThreadId of the successful answer
\* it got just before
SendsBackThreadId ==
    /\ Done /\ deployment = "app"
    /\ req.handler \in AgentHandlers /\ prev.handler \in AgentHandlers
    /\ prev.success /\ prev.thread_id # None
    /\ req.payload.session = prev.thread_id
    /\ req.calls # << >>

\* C30: thread continuation: a request whose threadId is the ThreadId
\* returned by the previous successful answer runs on the same remote thread
\* as that one; no new remote thread is created for it.
C30_ThreadIdRoundTrip ==
    SendsBackThreadId
    => /\ ~Has(req.calls, "create_thread")
       /\ req.out.success => req.out.thread_id = prev.thread_id

\* the remote thread the request in hand worked on: the one it created, or
\* the one the cache held for its key
ThreadUsed ==
    IF Has(req.calls, "create_thread") THEN ThreadId(nThreads)
    ELSE Cached(threads, req.payload.session)

\* C31: every AgentResponse of chat_with_agent is consistent in itself: with
\* success true, run_id is the id of the run that was seen completed and
\* thread_id the id of the remote thread used; with success false, run_id is
\* None, thread_id is the key the caller supplied (None if it supplied none)
\* and content is "Error: " followed by a non-empty reason.
C31_AgentResponseIsConsistent ==
    ChatCalled
    => IF req.out.success
       THEN /\ req.out.run_id = RunId(handled) /\ LastObserved = "completed"
            /\ req.out.thread_id = ThreadUsed
       ELSE /\ req.out.run_id = None
            /\ req.out.thread_id = req.payload.session
            /\ StartsWithError(req.out.value) /\ Len(req.out.value) > 1
            /\ \A i \in 2..Len(req.out.value) : req.out.value[i] # ""
\* a success on a cached thread, after a failure that carried the caller's key
C31_Witness ==
    /\ ChatCalled /\ req.out.success /\ ~Has(req.calls, "create_thread")
    /\ req.out.thread_id = ThreadId(1) /\ req.out.run_id = RunId(2)
    /\ ~prev.success /\ prev.thread_id = req.payload.session

\* C32: the two reply-extraction loops are equivalent: on every listing in
\* ascending order with user and assistant messages only, the reverse scan
\* for the first non-user message with text and the forward scan keeping the
\* last assistant message with text end alike: the same text, and the
\* fallback in the same cases, also when the selected text is "".
C32_ExtractionLoopsAgree ==
    reading.replies # << >>
    => reading.replies[1].reversed = reading.replies[1].forward

SearchHandlers == {"direct_search_query_http", "direct_search_query_queue"}
\* the search client raised while the request in hand was served
SearchRaised ==
    \E i \in 1..(Len(req.calls) - 1) : req.calls[i] = "search" /\ req.calls[i + 1] = "raise"

\* C33: a failure of the search backend is reported as a failure: when the
\* search client raises during a direct search request, the response (HTTP
\* or queue) has Success false; Success true with ResultCount 0 is answered
\* only when the backend actually returned no results.
C33_SearchFailureIsReported ==
    ( /\ Done /\ deployment = "app" /\ req.handler \in SearchHandlers
      /\ SearchRaised )
    => ~req.out.success

\* C34: every message taken from the search input queue sets exactly one
\* output message, on success and on every error (a body that cannot be
\* parsed, a failure of the formatter), so that no search request is left
\* without a response.
C34_OneOutputPerSearchMessage ==
    (Done /\ deployment = "app" /\ req.handler = "direct_search_query_queue")
    => req.out.emitted = 1 /\ ~req.out.raised

====
